---- MODULE Spec2Model ----
(***************************************************************************)
(* A model of oai_tools.py: the menu loop run(), the actions bound in      *)
(* menu_structure, the thread-id store file and the remote service the     *)
(* actions call.                                                           *)
(*                                                                         *)
(* A Python str is a sequence of one-character strings, so that lower(),   *)
(* strip() and int() are computed and not assumed.                         *)
(***************************************************************************)
EXTENDS Integers, Sequences, FiniteSets, TLC

\* ------------------------------------------------------------ bounds

\* remote threads.create() calls that return an id, over all instances
MaxThreads == 2
\* remote files.create() calls that return an id
MaxFiles == 2

\* ------------------------------------------------------------ strings

Digits == <<"0", "1", "2", "3", "4", "5", "6", "7", "8", "9">>

IsDigit(c) == \E i \in 1..10 : Digits[i] = c

DigitVal(c) == (CHOOSE i \in 1..10 : Digits[i] = c) - 1

\* str.lower(), one character
LowerChar(c) ==
  CASE c = "E" -> "e" [] c = "I" -> "i" [] c = "M" -> "m" [] c = "N" -> "n"
    [] c = "T" -> "t" [] c = "U" -> "u" [] c = "X" -> "x" [] OTHER -> c

\* str.lower()
Lower(s) == [i \in 1..Len(s) |-> LowerChar(s[i])]

IsSpace(c) == c = " "

RECURSIVE LStrip(_)
LStrip(s) == IF s # <<>> /\ IsSpace(Head(s)) THEN LStrip(Tail(s)) ELSE s

RECURSIVE RStrip(_)
RStrip(s) ==
  IF s # <<>> /\ IsSpace(s[Len(s)]) THEN RStrip(SubSeq(s, 1, Len(s) - 1)) ELSE s

\* str.strip()
Strip(s) == RStrip(LStrip(s))

RECURSIVE DigitsVal(_)
DigitsVal(s) ==
  IF s = <<>> THEN 0
  ELSE 10 * DigitsVal(SubSeq(s, 1, Len(s) - 1)) + DigitVal(s[Len(s)])

\* int(s) of a str: surrounding whitespace is dropped, one sign is allowed and
\* at least one digit must follow; anything else is a ValueError (ok = FALSE).
\* The inputs of this model are written with letters, digits, the space and
\* the signs, so the underscores and the other whitespace int() accepts do
\* not occur.
PyInt(s) ==
  LET t    == Strip(s)
      neg  == t # <<>> /\ Head(t) = "-"
      sgn  == t # <<>> /\ Head(t) \in {"-", "+"}
      body == IF sgn THEN Tail(t) ELSE t
      ok   == body # <<>> /\ \A i \in 1..Len(body) : IsDigit(body[i])
  IN  [ok |-> ok,
       val |-> IF ok THEN (IF neg THEN 0 - DigitsVal(body) ELSE DigitsVal(body))
               ELSE 0]

\* the emptiness test left out
NeverFalsy(s) == FALSE

\* a str is falsy when it is empty
Falsy(s) == s = <<>>

MENU == <<"m", "e", "n", "u">>
EXIT == <<"e", "x", "i", "t">>

\* ------------------------------------------------------------ the menu

None == "None"

menu_structure ==
  << [text |-> "Assistants",               func |-> None],
     [text |-> "List Assistants",          func |-> "list_assistants"],
     [text |-> "Threads",                  func |-> None],
     [text |-> "List Threads",             func |-> "list_threads"],
     [text |-> "Create a Thread",          func |-> "create_thread"],
     [text |-> "Delete a Thread",          func |-> "delete_thread"],
     [text |-> "List Messages For Thread", func |-> "list_messages"],
     [text |-> "Files",                    func |-> None],
     [text |-> "List Files",               func |-> "list_files"],
     [text |-> "Upload a File",            func |-> "upload_file"],
     [text |-> "Delete a File",            func |-> "delete_file"] >>

RECURSIVE FuncsOf(_)
FuncsOf(entries) ==
  IF entries = <<>> THEN <<>>
  ELSE IF Head(entries).func # None
       THEN <<Head(entries).func>> \o FuncsOf(Tail(entries))
       ELSE FuncsOf(Tail(entries))

\* [func for _, func in menu_structure if func]
menu_functions == FuncsOf(menu_structure)

\* list.index(x): the first position holding x, 0-based
ListIndex(l, x) == (CHOOSE i \in 1..Len(l) : l[i] = x /\ \A j \in 1..(i - 1) : l[j] # x) - 1

\* one printed line: what is printed, and the number and the text put in it
Line(text, n, arg) == [text |-> text, n |-> n, arg |-> arg]

Msg(text) == Line(text, 0, <<>>)

\* display_menu(): the title, then every entry: numbered when it is bound to an
\* action, a section header otherwise
display_menu ==
  <<Msg("OpenAI API Tools:")>> \o
  [i \in 1..Len(menu_structure) |->
     IF menu_structure[i].func # None
     THEN Line(menu_structure[i].text, ListIndex(menu_functions, menu_structure[i].func) + 1, <<>>)
     ELSE Line(menu_structure[i].text, 0, <<>>)]

\* ------------------------------------------------------------ run(): the dispatch

\* line 286: choice.lower() == 'menu'
RunMenu(choice) == Lower(choice) = MENU

\* line 288 comparing the input as typed
RunExitAsTyped(choice) == ~RunMenu(choice) /\ choice = EXIT

\* line 288: the elif, choice.lower() == 'exit'
RunExit(choice) == ~RunMenu(choice) /\ Lower(choice) = EXIT

\* line 293 without the conversion to a zero-based index
choice_index_one_based(n) == n

\* line 293: int(choice) - 1, the zero-based index
choice_index(n) == n - 1

\* line 294: 0 <= choice_index < len(menu_functions)
InRange(idx) == 0 <= idx /\ idx < Len(menu_functions)

\* the function the try block calls for this input, None when it calls none
Selected(choice) ==
  LET r == PyInt(choice) IN
  IF ~RunExit(choice) /\ r.ok /\ InRange(choice_index(r.val))
  THEN menu_functions[choice_index(r.val) + 1]
  ELSE None

NoExc == "none"

\* the classes that are ValueError or derive from it (json.JSONDecodeError does)
ValueErrors == {"ValueError", "JSONDecodeError"}

\* line 298 as a bare except
CatchesAll(exc) == TRUE

\* line 298: except ValueError
Catches(exc) == exc \in ValueErrors

\* line 300 without the test of line 299
ExceptOutAlways(choice) == <<Msg("Invalid choice. Please enter a number.")>>

\* lines 299-300: what the handler prints
ExceptOut(choice) ==
  IF Lower(choice) # MENU THEN <<Msg("Invalid choice. Please enter a number.")>> ELSE <<>>

\* ------------------------------------------------------------ the store file and the remote service

Digit(k) == Digits[k + 1]

\* the k-th id the remote service gives a thread, a file
ThreadId(k) == <<"t", Digit(k)>>
FileId(k) == <<"f", Digit(k)>>

Absent == [kind |-> "absent", ids |-> <<>>]
\* not JSON at all
BadSyntax == [kind |-> "badsyntax", ids |-> <<>>]
\* JSON, but not an object (a list, a number)
NotObject == [kind |-> "notobject", ids |-> <<>>]
\* an object without the key thread_ids
NoKey == [kind |-> "nokey", ids |-> <<>>]
\* {"thread_ids": ids}
Obj(ids) == [kind |-> "object", ids |-> ids]

\* os.path.exists(user_defaults)
Exists(f) == f.kind # "absent"

\* json.load(file) followed by data.get('thread_ids', [])
ReadStore(f) ==
  CASE f.kind = "badsyntax" -> [exc |-> "JSONDecodeError", ids |-> <<>>]
    [] f.kind = "notobject" -> [exc |-> "AttributeError", ids |-> <<>>]
    [] f.kind = "nokey"     -> [exc |-> NoExc, ids |-> <<>>]
    [] OTHER                -> [exc |-> NoExc, ids |-> f.ids]

\* the rewrite keeping only the new id
WriteStoreOnlyNew(thread_ids, thread_id) == Obj(<<thread_id>>)

\* thread_ids.append(thread_id) and json.dump({'thread_ids': thread_ids}, file)
WriteStore(thread_ids, thread_id) == Obj(Append(thread_ids, thread_id))

Call(op, arg) == [op |-> op, arg |-> arg]

\* for i, x in enumerate(data, 1): print(f"{i}. ... {x}")
Enumerate(text, data) == [i \in 1..Len(data) |-> Line(text, i, data[i])]

Without(l, x) == SelectSeq(l, LAMBDA y : y # x)

\* ------------------------------------------------------------ what the user types

Procs == {1, 2}

Choices ==
  { MENU, <<"M", "E", "N", "U">>, <<"m", "e", "n", "u", " ">>,
    EXIT, <<"E", "x", "i", "t">>,
    <<>>, <<"x">>,
    <<"0">>, <<"1">>, <<"2">>, <<"3">>, <<"4">>, <<"5">>, <<"6">>, <<"7">>, <<"8">>,
    <<"9">>, <<"-", "1">> }

\* the inputs for which the try block calls f
ChoicesOf == [f \in {menu_structure[i].func : i \in 1..Len(menu_structure)} |->
                {c \in Choices : Selected(c) = f}]

ThreadIdInputs == {<<>>, <<" ">>} \cup {ThreadId(k) : k \in 0..(MaxThreads - 1)}

FileIdInputs == {<<>>, <<" ">>} \cup {FileId(k) : k \in 0..(MaxFiles - 1)}

IndexInputs ==
  {<<"x">>, <<" ", "1">>} \cup {<<Digit(k)>> : k \in 0..(MaxFiles + 1)}

PathInputs == {<<>>, <<"a">>, <<"b">>}

\* the paths open(file_path, "rb") can open
Openable == {<<"a">>}

PurposeInputs == {<<"1">>, <<" ", "2">>, <<"3">>}

\* what assistants.list and messages.list may return
AssistantData == {<<>>, <<<<"a", "1">>, <<"a", "0">>>>}
MessageData == {<<>>, <<<<"m", "0">>>>}

\* ------------------------------------------------------------ state

VARIABLES
  store,       \* the thread-id file
  store0,      \* the file as it was when the tool started
  threads,     \* the ids of the threads the remote service holds
  nthreads,    \* how many thread ids the remote service has given
  files,       \* the ids of the files the remote service holds, in list order
  nfiles,      \* how many file ids the remote service has given
  pc,          \* per instance: start, prompt, ct_read, ct_write, done, crashed
  first_run,   \* per instance: run()'s first_run
  thread_id,   \* per instance: create_thread's thread_id
  thread_ids,  \* per instance: create_thread's thread_ids
  created,     \* per instance: the ids printed as "Created a thread! id:"
  it           \* per instance: the loop iteration under way or last finished

vars == <<store, store0, threads, nthreads, files, nfiles, pc, first_run,
          thread_id, thread_ids, created, it>>

remote == <<threads, nthreads, files, nfiles>>
locals == <<thread_id, thread_ids>>

\* an iteration: the input read, the functions called, the prompts they
\* answered, the remote calls issued, the lines printed, the exception raised
Iter(got, choice, ran, args, calls, out, raised) ==
  [got |-> got, choice |-> choice, ran |-> ran, args |-> args, calls |-> calls,
   out |-> out, raised |-> raised]

Init ==
  /\ store0 \in {Absent, BadSyntax, NotObject, NoKey}
  /\ store = store0
  /\ threads = {}
  /\ nthreads = 0
  /\ files = <<>>
  /\ nfiles = 0
  /\ pc = [p \in Procs |-> "start"]
  /\ first_run = [p \in Procs |-> TRUE]
  /\ thread_id = [p \in Procs |-> <<>>]
  /\ thread_ids = [p \in Procs |-> <<>>]
  /\ created = [p \in Procs |-> <<>>]
  /\ it = [p \in Procs |-> Iter(FALSE, <<>>, <<>>, <<>>, <<>>, <<>>, NoExc)]

\* the prompt is answered: styled_input returns choice
AtPrompt(p) == pc[p] = "prompt"

\* the iteration ends: an exception the try block catches is reported and the
\* loop goes on, any other one leaves run()
Finish(p, choice, ran, args, calls, out, exc) ==
  /\ it' = [it EXCEPT ![p] =
       Iter(TRUE, choice, ran, args, calls,
            IF exc # NoExc /\ Catches(exc) THEN out \o ExceptOut(choice) ELSE out,
            exc)]
  /\ pc' = [pc EXCEPT ![p] = IF exc = NoExc \/ Catches(exc) THEN "prompt" ELSE "crashed"]
  /\ first_run' = [first_run EXCEPT ![p] = FALSE]

\* lines 279-281: the first iteration displays the menu before it prompts
Start(p) ==
  /\ pc[p] = "start"
  /\ first_run[p]
  /\ pc' = [pc EXCEPT ![p] = "prompt"]
  /\ it' = [it EXCEPT ![p] = Iter(FALSE, <<>>, <<>>, <<>>, <<>>, display_menu, NoExc)]
  /\ UNCHANGED <<store, store0, remote, first_run, locals, created>>

\* lines 292-300 for an input that selects no function
TryBlock(p, choice, pre) ==
  LET r == PyInt(choice) IN
  /\ choice \in ChoicesOf[None]
  /\ IF ~r.ok
     THEN Finish(p, choice, <<>>, <<>>, <<>>, pre, "ValueError")
     ELSE Finish(p, choice, <<>>, <<>>, <<>>,
                 pre \o <<Msg("Invalid choice. Please try again.")>>, NoExc)
  /\ UNCHANGED <<store, store0, remote, locals, created>>

\* lines 286-287, then the try block
Menu(p) ==
  /\ AtPrompt(p)
  /\ \E choice \in Choices : RunMenu(choice) /\ TryBlock(p, choice, display_menu)

\* lines 288-290
Exit(p) ==
  /\ AtPrompt(p)
  /\ \E choice \in Choices :
       /\ RunExit(choice)
       /\ it' = [it EXCEPT ![p] =
            Iter(TRUE, choice, <<>>, <<>>, <<>>, <<Msg("Have a nice day!")>>, NoExc)]
  /\ pc' = [pc EXCEPT ![p] = "done"]
  /\ first_run' = [first_run EXCEPT ![p] = FALSE]
  /\ UNCHANGED <<store, store0, remote, locals, created>>

\* lines 292-300: neither keyword, and int(choice) raises
NotANumber(p) ==
  /\ AtPrompt(p)
  /\ \E choice \in Choices :
       ~RunMenu(choice) /\ ~RunExit(choice) /\ ~PyInt(choice).ok /\ TryBlock(p, choice, <<>>)

\* lines 292-297: a number outside the menu
OutOfRange(p) ==
  /\ AtPrompt(p)
  /\ \E choice \in Choices :
       ~RunMenu(choice) /\ ~RunExit(choice) /\ PyInt(choice).ok /\ TryBlock(p, choice, <<>>)

\* ------------------------------------------------------------ the actions of the menu

RemoteOutcomes == {"ok", "raise"}

\* lines 30-46
ListAssistants(p) ==
  /\ AtPrompt(p)
  /\ \E choice \in Choices, r \in RemoteOutcomes, data \in AssistantData :
       /\ choice \in ChoicesOf["list_assistants"]
       /\ LET calls == <<Call("assistants.list", <<>>)>>
              out   == <<Msg("Fetching assistants...")>>
          IN  IF r = "raise"
              THEN Finish(p, choice, <<"list_assistants">>, <<>>, calls, out, "APIError")
              ELSE Finish(p, choice, <<"list_assistants">>, <<>>, calls,
                          out \o (IF data = <<>> THEN <<Msg("No assistants available.")>>
                                  ELSE Enumerate("assistant", data)),
                          NoExc)
  /\ UNCHANGED <<store, store0, remote, locals, created>>

\* lines 79-91: what list_threads prints, and what it raises
list_threads(f) ==
  IF ~Exists(f) THEN [exc |-> NoExc, out |-> <<Msg("No thread IDs stored.")>>]
  ELSE LET rd == ReadStore(f) IN
       IF rd.exc # NoExc THEN [exc |-> rd.exc, out |-> <<>>]
       ELSE IF rd.ids # <<>>
            THEN [exc |-> NoExc,
                  out |-> <<Msg("Stored thread IDs:")>> \o Enumerate("thread", rd.ids)]
            ELSE [exc |-> NoExc, out |-> <<Msg("No thread IDs stored.")>>]

\* lines 75-91
ListThreads(p) ==
  /\ AtPrompt(p)
  /\ \E choice \in Choices :
       /\ choice \in ChoicesOf["list_threads"]
       /\ LET res == list_threads(store)
          IN  Finish(p, choice, <<"list_threads">>, <<>>, <<>>, res.out, res.exc)
  /\ UNCHANGED <<store, store0, remote, locals, created>>

\* lines 55-58: the remote call and the report of the new id
CreateThread(p) ==
  /\ AtPrompt(p)
  /\ \E choice \in Choices, r \in RemoteOutcomes :
       /\ choice \in ChoicesOf["create_thread"]
       /\ LET calls == <<Call("threads.create", <<>>)>>
              out   == <<Msg("Creating a thread...")>>
          IN  IF r = "raise"
              THEN /\ Finish(p, choice, <<"create_thread">>, <<>>, calls, out, "APIError")
                   /\ UNCHANGED <<remote, locals, created>>
              ELSE /\ nthreads < MaxThreads
                   /\ thread_id' = [thread_id EXCEPT ![p] = ThreadId(nthreads)]
                   /\ nthreads' = nthreads + 1
                   /\ threads' = threads \cup {ThreadId(nthreads)}
                   /\ created' = [created EXCEPT ![p] = Append(@, ThreadId(nthreads))]
                   /\ it' = [it EXCEPT ![p] =
                        Iter(TRUE, choice, <<"create_thread">>, <<>>, calls,
                             out \o <<Line("Created a thread! id:", 0, ThreadId(nthreads))>>,
                             NoExc)]
                   /\ pc' = [pc EXCEPT ![p] = "ct_read"]
                   /\ first_run' = [first_run EXCEPT ![p] = FALSE]
                   /\ UNCHANGED <<files, nfiles, thread_ids>>
  /\ UNCHANGED <<store, store0>>

\* lines 61-67: the read of the file
CreateRead(p) ==
  /\ pc[p] = "ct_read"
  /\ LET rd == IF Exists(store) THEN ReadStore(store) ELSE [exc |-> NoExc, ids |-> <<>>]
     IN  IF rd.exc # NoExc
         THEN /\ Finish(p, it[p].choice, it[p].ran, it[p].args, it[p].calls, it[p].out, rd.exc)
              /\ thread_id' = [thread_id EXCEPT ![p] = <<>>]
              /\ UNCHANGED thread_ids
         ELSE /\ thread_ids' = [thread_ids EXCEPT ![p] = rd.ids]
              /\ pc' = [pc EXCEPT ![p] = "ct_write"]
              /\ UNCHANGED <<thread_id, it, first_run>>
  /\ UNCHANGED <<store, store0, remote, created>>

\* lines 61-72 done under a lock: the file is read again when it is rewritten
CreateWriteLocked(p) ==
  /\ pc[p] = "ct_write"
  /\ store' = WriteStore(ReadStore(store).ids, thread_id[p])
  /\ pc' = [pc EXCEPT ![p] = "prompt"]
  /\ thread_id' = [thread_id EXCEPT ![p] = <<>>]
  /\ thread_ids' = [thread_ids EXCEPT ![p] = <<>>]
  /\ UNCHANGED <<store0, remote, created, it, first_run>>

\* lines 69-72: the append and the rewrite of the whole file
CreateWrite(p) ==
  /\ pc[p] = "ct_write"
  /\ store' = WriteStore(thread_ids[p], thread_id[p])
  /\ pc' = [pc EXCEPT ![p] = "prompt"]
  /\ thread_id' = [thread_id EXCEPT ![p] = <<>>]
  /\ thread_ids' = [thread_ids EXCEPT ![p] = <<>>]
  /\ UNCHANGED <<store0, remote, created, it, first_run>>

\* what threads.delete and files.delete may answer for an id the service
\* holds, and for one it does not
DeleteOutcomes(held) == IF held THEN {"deleted", "notdeleted", "raise"} ELSE {"notdeleted", "raise"}

\* lines 94-111, called as line 243 binds it; everything but the store file
delete_thread(p) ==
  /\ AtPrompt(p)
  /\ \E choice \in Choices, typed \in ThreadIdInputs :
       LET tid == Strip(typed) IN
       /\ choice \in ChoicesOf["delete_thread"]
       /\ IF Falsy(tid)
          THEN /\ Finish(p, choice, <<"delete_thread">>, <<typed>>, <<>>,
                         <<Msg("No thread ID provided. Please provide a valid thread ID.")>>,
                         NoExc)
               /\ UNCHANGED threads
          ELSE \E r \in DeleteOutcomes(tid \in threads) :
                 LET calls == <<Call("threads.delete", tid)>>
                     out   == <<Line("Deleting thread", 0, tid)>>
                 IN  /\ threads' = IF r = "deleted" THEN threads \ {tid} ELSE threads
                     /\ Finish(p, choice, <<"delete_thread">>, <<typed>>, calls,
                               CASE r = "deleted" -> out \o <<Msg("Thread deleted successfully!")>>
                                 [] r = "notdeleted" -> out \o <<Msg("There was a problem.")>>
                                 [] OTHER -> out,
                               IF r = "raise" THEN "APIError" ELSE NoExc)
  /\ UNCHANGED <<store0, nthreads, files, nfiles, locals, created>>

\* the same, with the id taken out of the store file when the service deleted it
DeleteThreadPurging(p) ==
  /\ delete_thread(p)
  /\ store' = IF threads' # threads
              THEN [store EXCEPT !.ids = SelectSeq(@, LAMBDA t : t \in threads')]
              ELSE store

\* lines 94-111: delete_thread writes no file
DeleteThread(p) ==
  /\ delete_thread(p)
  /\ UNCHANGED store

\* lines 114-136, called as line 244 binds it
ListMessages(p) ==
  /\ AtPrompt(p)
  /\ \E choice \in Choices, typed \in ThreadIdInputs :
       LET tid == Strip(typed) IN
       /\ choice \in ChoicesOf["list_messages"]
       /\ IF Falsy(tid)
          THEN Finish(p, choice, <<"list_messages">>, <<typed>>, <<>>,
                      <<Msg("No thread ID provided. Please provide a valid thread ID.")>>,
                      NoExc)
          ELSE \E r \in RemoteOutcomes, data \in MessageData :
                 LET calls == <<Call("messages.list", tid)>>
                     out   == <<Line("Fetching messages for thread id:", 0, tid)>>
                 IN  IF r = "raise"
                     THEN Finish(p, choice, <<"list_messages">>, <<typed>>, calls, out, "APIError")
                     ELSE Finish(p, choice, <<"list_messages">>, <<typed>>, calls,
                                 out \o (IF data = <<>> THEN <<Msg("This thread has no messages.")>>
                                         ELSE Enumerate("message", data)),
                                 NoExc)
  /\ UNCHANGED <<store, store0, remote, locals, created>>

\* lines 139-152
ListFiles(p) ==
  /\ AtPrompt(p)
  /\ \E choice \in Choices, r \in RemoteOutcomes :
       /\ choice \in ChoicesOf["list_files"]
       /\ LET calls == <<Call("files.list", <<>>)>>
              out   == <<Msg("Fetching files...")>>
          IN  IF r = "raise"
              THEN Finish(p, choice, <<"list_files">>, <<>>, calls, out, "APIError")
              ELSE Finish(p, choice, <<"list_files">>, <<>>, calls,
                          out \o (IF files = <<>> THEN <<Msg("No files available.")>>
                                  ELSE Enumerate("file", files)),
                          NoExc)
  /\ UNCHANGED <<store, store0, remote, locals, created>>

\* lines 173-174: purpose_options.get(choice, "assistants")
Purpose(choice) ==
  CASE choice = <<"1">> -> <<"a", "s", "s", "i", "s", "t", "a", "n", "t", "s">>
    [] choice = <<"2">> -> <<"f", "i", "n", "e", "-", "t", "u", "n", "e">>
    [] OTHER -> <<"a", "s", "s", "i", "s", "t", "a", "n", "t", "s">>

\* lines 155-181, called as line 248 binds it
UploadFile(p) ==
  /\ AtPrompt(p)
  /\ \E choice \in Choices, file_path \in PathInputs :
       /\ choice \in ChoicesOf["upload_file"]
       /\ IF Falsy(file_path)
          THEN /\ Finish(p, choice, <<"upload_file">>, <<file_path>>, <<>>,
                         <<Msg("No file path provided. Please provide a valid file path.")>>,
                         NoExc)
               /\ UNCHANGED <<files, nfiles>>
          ELSE \E typed \in PurposeInputs, r \in RemoteOutcomes :
                 LET purpose == Purpose(Strip(typed))
                     args    == <<file_path, typed>>
                     out     == <<Msg("Select the purpose of the file upload:")>>
                     calls   == <<Call("files.create", purpose)>>
                 IN  IF file_path \notin Openable
                     THEN \* open() raises before files.create is called
                          /\ r = "raise"
                          /\ Finish(p, choice, <<"upload_file">>, args, <<>>, out,
                                    "FileNotFoundError")
                          /\ UNCHANGED <<files, nfiles>>
                     ELSE IF r = "raise"
                          THEN /\ Finish(p, choice, <<"upload_file">>, args, calls, out, "APIError")
                               /\ UNCHANGED <<files, nfiles>>
                          ELSE /\ nfiles < MaxFiles
                               /\ files' = Append(files, FileId(nfiles))
                               /\ nfiles' = nfiles + 1
                               /\ Finish(p, choice, <<"upload_file">>, args, calls,
                                         out \o <<Line("uploaded! id:", 0, FileId(nfiles))>>,
                                         NoExc)
  /\ UNCHANGED <<store, store0, threads, nthreads, locals, created>>

\* lines 215-218: the remote delete and its report
files_delete(p, choice, args, calls, out, file_id) ==
  \E r \in DeleteOutcomes(\E i \in 1..Len(files) : files[i] = file_id) :
    /\ files' = IF r = "deleted" THEN Without(files, file_id) ELSE files
    /\ Finish(p, choice, <<"delete_file">>, args,
              calls \o <<Call("files.delete", file_id)>>,
              CASE r = "deleted" -> out \o <<Line("deleted:", 1, file_id)>>
                [] r = "notdeleted" -> out \o <<Line("deleted:", 0, file_id)>>
                [] OTHER -> out,
              IF r = "raise" THEN "APIError" ELSE NoExc)

\* line 205, without the lower bound
ValidFileIndexNoLower(file_index, n) == file_index < n

\* line 205: 0 <= file_index < len(files)
ValidFileIndex(file_index, n) == 0 <= file_index /\ file_index < n

\* line 206: files[file_index]; a negative index counts from the end, an index
\* outside the list raises IndexError
GetItem(l, i) ==
  CASE 0 <= i /\ i < Len(l)   -> [exc |-> NoExc, val |-> l[i + 1]]
    [] i < 0 /\ 0 - i <= Len(l) -> [exc |-> NoExc, val |-> l[Len(l) + i + 1]]
    [] OTHER                   -> [exc |-> "IndexError", val |-> <<>>]

\* lines 184-218, called as line 249 binds it
DeleteFile(p) ==
  /\ AtPrompt(p)
  /\ \E choice \in Choices, typed \in FileIdInputs :
       /\ choice \in ChoicesOf["delete_file"]
       /\ IF ~Falsy(Strip(typed))
          THEN files_delete(p, choice, <<typed>>, <<>>, <<>>, Strip(typed))
          ELSE \E r \in RemoteOutcomes :
                 LET calls == <<Call("files.list", <<>>)>>
                     out   == <<Msg("Fetching files...")>>
                 IN  IF r = "raise"
                     THEN /\ Finish(p, choice, <<"delete_file">>, <<typed>>, calls, out, "APIError")
                          /\ UNCHANGED files
                     ELSE IF files = <<>>
                          THEN /\ Finish(p, choice, <<"delete_file">>, <<typed>>, calls,
                                         out \o <<Msg("No files available.")>>, NoExc)
                               /\ UNCHANGED files
                          ELSE \E number \in IndexInputs :
                                 LET n     == PyInt(number)
                                     args  == <<typed, number>>
                                     shown == out \o Enumerate("file", files)
                                 IN  IF ~n.ok
                                     THEN /\ Finish(p, choice, <<"delete_file">>, args, calls,
                                                    shown \o <<Msg("Invalid input. Please enter a number.")>>,
                                                    NoExc)
                                          /\ UNCHANGED files
                                     ELSE IF ValidFileIndex(n.val - 1, Len(files))
                                          THEN LET file == GetItem(files, n.val - 1) IN
                                               IF file.exc # NoExc
                                               THEN /\ Finish(p, choice, <<"delete_file">>, args,
                                                              calls, shown, file.exc)
                                                    /\ UNCHANGED files
                                               ELSE files_delete(p, choice, args, calls, shown,
                                                                 file.val)
                                          ELSE /\ Finish(p, choice, <<"delete_file">>, args, calls,
                                                         shown \o <<Msg("Invalid file number.")>>,
                                                         NoExc)
                                               /\ UNCHANGED files
  /\ UNCHANGED <<store, store0, threads, nthreads, nfiles, locals, created>>

\* ------------------------------------------------------------ specifications

Step(p) ==
  \/ Start(p)
  \/ Menu(p)
  \/ Exit(p)
  \/ NotANumber(p)
  \/ OutOfRange(p)
  \/ ListAssistants(p)
  \/ ListThreads(p)
  \/ CreateThread(p)
  \/ CreateRead(p)
  \/ CreateWrite(p)
  \/ DeleteThread(p)
  \/ ListMessages(p)
  \/ ListFiles(p)
  \/ UploadFile(p)
  \/ DeleteFile(p)

\* one instance of the tool, the user free to type anything
Next == Step(1)

Spec == Init /\ [][Next]_vars

\* two instances of the tool on the same store file, their users working on
\* threads
NextConc ==
  \E p \in Procs :
    \/ Start(p)
    \/ ListThreads(p)
    \/ CreateThread(p)
    \/ CreateRead(p)
    \/ CreateWrite(p)

SpecConc == Init /\ [][NextConc]_vars

\* ------------------------------------------------------------ properties

\* the iteration of instance p has read an input and is over
Over(p) == it[p].got /\ pc[p] \in {"prompt", "done", "crashed"}

\* the lines of out printed as text
LinesOf(out, text) == SelectSeq(out, LAMBDA l : l.text = text)

\* the remote calls of one operation among calls
CallsOf(calls, op) == SelectSeq(calls, LAMBDA c : c.op = op)

IsIn(x, l) == \E i \in 1..Len(l) : l[i] = x

\* the positions of menu_structure bound to an action
Bound == {i \in 1..Len(menu_structure) : menu_structure[i].func # None}

\* the 1-based position of entry i among the entries bound to an action
RankOf(i) == Cardinality({j \in Bound : j <= i})

\* C1 as claimed: no exception escapes the loop, and the loop ends only on
\* the exit command.
C1_NoExceptionEscapes ==
  \A p \in Procs :
    /\ pc[p] # "crashed"
    /\ pc[p] = "done" => Lower(it[p].choice) = EXIT

\* C1 as amended: a ValueError (a failed int() of the input, or one raised in
\* the selected action, as a JSON decode error is) is caught and the loop
\* prompts again; any other exception raised in the selected action leaves
\* the loop; the loop ends only on exit or on such an exception.
C1_OnlyValueErrorsCaught ==
  \A p \in Procs :
    /\ pc[p] = "crashed" =>
         it[p].got /\ Len(it[p].ran) = 1
         /\ it[p].raised \notin {NoExc, "ValueError", "JSONDecodeError"}
    /\ (it[p].got /\ it[p].raised \in {"ValueError", "JSONDecodeError"}) =>
         /\ pc[p] = "prompt"
         /\ Lower(it[p].choice) # MENU =>
              it[p].out[Len(it[p].out)] = Msg("Invalid choice. Please enter a number.")
    /\ (it[p].got /\ it[p].raised \notin {NoExc, "ValueError", "JSONDecodeError"}) =>
         pc[p] = "crashed"
    /\ pc[p] = "done" => Lower(it[p].choice) = EXIT /\ it[p].raised = NoExc

\* Upload File of a path that cannot be opened has left the loop.
C1_Witness ==
  /\ pc[1] = "crashed"
  /\ it[1].ran = <<"upload_file">>
  /\ it[1].raised = "FileNotFoundError"

\* C2: every resource error raised in an action (the upload path cannot be
\* opened, the store file is malformed when Create Thread or List Threads
\* reads it) leaves the loop and ends the process.
C2_ResourceErrorsEscape ==
  \A p \in Procs :
    (it[p].got /\ it[p].raised \in {"FileNotFoundError", "JSONDecodeError", "AttributeError"})
      => pc[p] = "crashed"

\* C3: a numeric input n in 1..number of action-bound entries runs exactly one
\* action, the n-th action-bound entry in declaration order, which is the
\* entry display_menu shows with the number n (headers carry no number); any
\* other integer runs nothing, prints the invalid-choice message and the loop
\* prompts again.
C3_NumberSelectsShownEntry ==
  /\ \A i \in 1..Len(menu_structure) :
       display_menu[i + 1].n = (IF i \in Bound THEN RankOf(i) ELSE 0)
  /\ \A p \in Procs :
       (it[p].got /\ PyInt(it[p].choice).ok) =>
         LET n == PyInt(it[p].choice).val IN
         IF 1 <= n /\ n <= Cardinality(Bound)
         THEN \E i \in Bound :
                /\ RankOf(i) = n
                /\ display_menu[i + 1] = Line(menu_structure[i].text, n, <<>>)
                /\ it[p].ran = <<menu_structure[i].func>>
         ELSE /\ it[p].ran = <<>>
              /\ it[p].calls = <<>>
              /\ it[p].out = <<Msg("Invalid choice. Please try again.")>>
              /\ pc[p] = "prompt"

\* The input 8 has run Delete a File, the eighth numbered entry.
C3_Witness ==
  /\ it[1].got
  /\ it[1].choice = <<"8">>
  /\ it[1].ran = <<"delete_file">>
  /\ pc[1] = "prompt"

\* C4: from an absent store file, once k >= 1 Create Thread operations of the
\* single instance are over, the file holds exactly the ids reported as
\* created, in creation order; List Threads then prints them numbered 1..k in
\* that order.
C4_StoreHoldsCreatedIds ==
  store0 = Absent =>
    /\ pc[1] \notin {"ct_read", "ct_write"} =>
         store = (IF created[1] = <<>> THEN Absent ELSE Obj(created[1]))
    /\ (Over(1) /\ it[1].ran = <<"list_threads">> /\ created[1] # <<>>) =>
         /\ Len(it[1].out) = Len(created[1]) + 1
         /\ it[1].out[1] = Msg("Stored thread IDs:")
         /\ \A k \in 1..Len(created[1]) : it[1].out[k + 1] = Line("thread", k, created[1][k])

\* Two threads were created from an absent store and List Threads has
\* printed both.
C4_Witness ==
  /\ store0 = Absent
  /\ Len(created[1]) = 2
  /\ Over(1)
  /\ it[1].ran = <<"list_threads">>
  /\ Len(it[1].out) = 3

\* C5 as claimed: every invocation of a menu action makes exactly one remote
\* call.
C5_ExactlyOneRemoteCall ==
  \A p \in Procs : (Over(p) /\ it[p].ran # <<>>) => Len(it[p].calls) = 1

\* the number of remote calls an invocation issues, from the action, the
\* answers to its prompts and what it printed
ExpectedCalls(i) ==
  LET f == i.ran[1] IN
  CASE f \in {"list_assistants", "create_thread", "list_files"} -> 1
    [] f = "list_threads" -> 0
    [] f \in {"delete_thread", "list_messages"} -> IF Strip(i.args[1]) = <<>> THEN 0 ELSE 1
    [] f = "upload_file" -> IF i.args[1] = <<>> \/ i.args[1] \notin Openable THEN 0 ELSE 1
    [] f = "delete_file" ->
         IF Strip(i.args[1]) # <<>> THEN 1
         ELSE IF /\ Len(i.args) = 2
                 /\ PyInt(i.args[2]).ok
                 /\ 1 <= PyInt(i.args[2]).val
                 /\ PyInt(i.args[2]).val <= Len(LinesOf(i.out, "file"))
              THEN 2 ELSE 1

\* C5 as amended: an invocation makes at most two remote calls, and not
\* always one: List Threads makes none; Delete Thread and List Messages make
\* none for an empty id; Upload File makes none for an empty path or one that
\* cannot be opened; Delete File without an id makes a list call and, for a
\* valid index, a delete call as well; every other invocation makes one.
C5_RemoteCallsPerAction ==
  \A p \in Procs :
    (Over(p) /\ it[p].ran # <<>>) =>
      /\ Len(it[p].calls) = ExpectedCalls(it[p])
      /\ Len(it[p].calls) <= 2

\* Delete File without an id has listed the files and deleted one: two calls.
C5_Witness ==
  /\ Over(1)
  /\ it[1].ran = <<"delete_file">>
  /\ Len(it[1].calls) = 2
  /\ it[1].calls[1].op = "files.list"
  /\ it[1].calls[2].op = "files.delete"

\* C6: a remote delete is issued only for a resolved target. Delete Thread
\* with an empty id issues no call and prints the usage message; Delete File
\* without an id, the list holding N files, issues no delete call for an
\* index outside 1..N or not a number (it prints an error and returns) and
\* for an index in 1..N deletes exactly the file listed at that index.
C6_DeleteOnlyResolvedTarget ==
  \A p \in Procs :
    Over(p) =>
      LET i      == it[p]
          listed == LinesOf(i.out, "file")
          dels   == CallsOf(i.calls, "files.delete")
      IN
      /\ i.ran = <<"delete_thread">> =>
           IF Strip(i.args[1]) = <<>>
           THEN /\ i.calls = <<>>
                /\ i.out = <<Msg("No thread ID provided. Please provide a valid thread ID.")>>
           ELSE i.calls = <<Call("threads.delete", Strip(i.args[1]))>>
      /\ (i.ran = <<"delete_file">> /\ Strip(i.args[1]) # <<>>) =>
           i.calls = <<Call("files.delete", Strip(i.args[1]))>>
      /\ (i.ran = <<"delete_file">> /\ Strip(i.args[1]) = <<>> /\ Len(i.args) = 1) =>
           dels = <<>>
      /\ (i.ran = <<"delete_file">> /\ Strip(i.args[1]) = <<>> /\ Len(i.args) = 2) =>
           LET r == PyInt(i.args[2]) IN
           IF r.ok /\ 1 <= r.val /\ r.val <= Len(listed)
           THEN dels = <<Call("files.delete", listed[r.val].arg)>> /\ listed[r.val].n = r.val
           ELSE /\ dels = <<>>
                /\ i.out[Len(i.out)] =
                     (IF r.ok THEN Msg("Invalid file number.")
                      ELSE Msg("Invalid input. Please enter a number."))
                /\ pc[p] = "prompt"

\* Of two listed files the second was chosen by its index, and deleted.
C6_Witness ==
  /\ Over(1)
  /\ it[1].ran = <<"delete_file">>
  /\ it[1].args = << <<>>, <<"2">> >>
  /\ Len(LinesOf(it[1].out, "file")) = 2
  /\ it[1].out[Len(it[1].out)] = Line("deleted:", 1, FileId(1))

\* C7: the input menu, in any letter case, redisplays the menu, runs no
\* action, makes no remote call, prints no error message, and the loop
\* prompts again.
C7_MenuRedisplaysOnly ==
  \A p \in Procs :
    (it[p].got /\ Lower(it[p].choice) = MENU) =>
      /\ it[p].out = display_menu
      /\ Len(it[p].out) = Len(menu_structure) + 1
      /\ it[p].ran = <<>>
      /\ it[p].calls = <<>>
      /\ pc[p] = "prompt"

\* MENU was typed after a thread had been created.
C7_Witness ==
  /\ it[1].got
  /\ it[1].choice = <<"M", "E", "N", "U">>
  /\ created[1] # <<>>
  /\ pc[1] = "prompt"

\* C8: the input exit, in any letter case and after any earlier inputs,
\* prints the farewell exactly once and ends the loop: no action runs, and
\* nothing is prompted or printed after it.
C8_ExitEndsLoop ==
  [][\A p \in Procs :
       /\ (it'[p].got /\ Lower(it'[p].choice) = EXIT) =>
            /\ pc'[p] = "done"
            /\ it'[p].out = <<Msg("Have a nice day!")>>
            /\ it'[p].ran = <<>>
            /\ it'[p].calls = <<>>
       /\ pc'[p] # "done" => LinesOf(it'[p].out, "Have a nice day!") = <<>>
       /\ pc[p] = "done" => (pc'[p] = "done" /\ it'[p] = it[p] /\ created'[p] = created[p])
    ]_vars

\* Exit was typed, in mixed case, after a thread had been created.
C8_Witness ==
  /\ pc[1] = "done"
  /\ it[1].choice = <<"E", "x", "i", "t">>
  /\ created[1] # <<>>

\* C9: in create_thread the read of the store file and the rewrite of the
\* whole file are separate steps with no lock: the rewrite puts in the file
\* the ids this instance read earlier and its own id, whatever the file
\* holds by then, so that with two instances an id the other one wrote in
\* between is lost.
C9_RewriteFromEarlierRead ==
  [][\A p \in Procs :
       (pc[p] = "ct_write" /\ pc'[p] # "ct_write") =>
         /\ store' = Obj(Append(thread_ids[p], thread_id[p]))
         /\ \A t \in {store.ids[k] : k \in 1..Len(store.ids)} :
              IsIn(t, store'.ids) <=> IsIn(t, thread_ids[p])
    ]_vars

\* Both instances created a thread, both creations are over, and the store
\* file misses one of the two ids.
C9_LostUpdate ==
  /\ store0 = Absent
  /\ pc[1] = "prompt" /\ pc[2] = "prompt"
  /\ Len(created[1]) = 1 /\ Len(created[2]) = 1
  /\ created[1][1] \in threads /\ created[2][1] \in threads
  /\ store.kind = "object"
  /\ Len(store.ids) = 1

\* C10: the store file is changed only by Create Thread; every other action,
\* a successful Delete Thread of a stored id included, leaves it as it is,
\* so List Threads still prints the id of a thread deleted remotely.
C10_OnlyCreateWritesStore ==
  [][/\ store' # store =>
          \E p \in Procs : /\ pc[p] = "ct_write"
                           /\ it[p].ran = <<"create_thread">>
                           /\ store' = Obj(Append(thread_ids[p], thread_id[p]))
     /\ \A p \in Procs :
          (it'[p].got /\ it'[p].ran = <<"list_threads">> /\ store'.kind = "object"
             /\ store'.ids # <<>>) =>
            LinesOf(it'[p].out, "thread") =
              [k \in 1..Len(store'.ids) |-> Line("thread", k, store'.ids[k])]
    ]_vars

\* List Threads has printed the id of a thread the remote service no longer
\* holds.
C10_Witness ==
  /\ Over(1)
  /\ it[1].ran = <<"list_threads">>
  /\ \E k \in 1..Len(it[1].out) :
       /\ it[1].out[k].text = "thread"
       /\ it[1].out[k].arg \notin threads
       /\ IsIn(it[1].out[k].arg, store.ids)
====
